---- MODULE Spec2Model ----
(***************************************************************************)
(* Model of CloudSecretReconciler.Reconcile                                *)
(* (controllers/cloudsecret_controller.go).                                *)
(*                                                                         *)
(* The State Store holds CloudSecret objects (DesiredSecret) and core      *)
(* Secret objects (ManagedSecret).  One reconciliation cycle is a sequence *)
(* of steps, one per State Store or Secret Resolver call; the outcome of   *)
(* every call (success, NotFound, other error, resolved value) is an input *)
(* chosen by the environment.                                              *)
(***************************************************************************)
EXTENDS Integers, Sequences, FiniteSets, TLC

\* ------------------------------------------------------------------ bounds
MaxVal == 2

\* time.Duration(5) * time.Second, in seconds
defaultRetryTime == 5

Ids == {"x", "y"}
MainId == "x"
Keys == {"a", "b"}
Refs == {"ra", "rb"}
Vals == 1..MaxVal
SyncPeriods == {defaultRetryTime - 1, defaultRetryTime, defaultRetryTime + 1}

\* ------------------------------------------------------------ data model
PartialFns(K, V) == UNION {[D -> V] : D \in SUBSET K}
EmptyMap == [k \in {} |-> 0]

\* CloudSecret objects as the store holds them (exists = FALSE: no object)
NoCloudSecret == [exists |-> FALSE, SyncPeriod |-> 0, Data |-> EmptyMap]
CloudSecretObjs ==
    {[exists |-> TRUE, SyncPeriod |-> p, Data |-> d] :
        p \in SyncPeriods, d \in PartialFns(Keys, Refs)}

\* core Secret objects as the store holds them
NoSecret == [exists |-> FALSE, Data |-> EmptyMap]
SecretObjs == {[exists |-> TRUE, Data |-> d] : d \in PartialFns(Keys, Vals)}

\* CloudSecret.GetChildSecretKey: same namespace, fixed transform of the name
GetChildSecretKey(id) == <<"secret", id>>
ChildKeys == {GetChildSecretKey(id) : id \in Ids}

\* CloudSecret.InitChildSecret: a Secret at the child key with no data
InitChildSecret == EmptyMap

\* bug: the NotFound of a deleted CloudSecret is returned as an error
IgnoreNotFound_Keep(err) == err

\* line 53: client.IgnoreNotFound
IgnoreNotFound(err) == IF err = "NotFound" THEN "nil" ELSE err

\* ctrl.Result{} / ctrl.Result{RequeueAfter: d}
Result(d, err) == [RequeueAfter |-> d, err |-> err]
NoResult == Result(0, "nil")

VARIABLES
    cloudSecrets,   \* State Store: CloudSecret object per identity
    secrets,        \* State Store: Secret object per child key
    gcpSecrets,     \* Secret Resolver: what an access of each reference gives
    pc,             \* position of the cycle running for each identity
    cloudSecret,    \* local: the CloudSecret read at line 51
    childSecret,    \* local: childSecret.Data
    pending,        \* local: keys the range loop has not visited yet
    getSecretFail,  \* local: line 77
    result,         \* local: result.RequeueAfter
    ret,            \* what Reconcile returned
    trace,          \* history: calls made in the current cycle, in order
    startSecret,    \* history: the child Secret when the cycle started
    prev,           \* history: summary of the previous cycle
    store0,         \* history: the Secrets the store held at first
    stable          \* the environment has settled: nothing changes or fails

vars == <<cloudSecrets, secrets, gcpSecrets, pc, cloudSecret, childSecret, pending,
          getSecretFail, result, ret, trace, startSecret, prev, store0, stable>>

locals == <<cloudSecret, childSecret, pending, getSecretFail, result>>

\* ------------------------------------------------------ external outcomes
\* r.Get: nil when the object exists, NotFound when it does not, or any
\* other failure of the call
GetOutcomes(exists) == {IF exists THEN "nil" ELSE "NotFound", "GetErr"}
\* r.Create: fails with AlreadyExists on an existing object
CreateOutcomes(exists) == {IF exists THEN "AlreadyExists" ELSE "nil", "CreateErr"}
\* r.Update / r.Delete: fail with NotFound on a missing object
UpdateOutcomes(exists) == {IF exists THEN "nil" ELSE "NotFound", "UpdateErr"}
DeleteOutcomes(exists) == {IF exists THEN "nil" ELSE "NotFound", "DeleteErr"}
\* r.GcpSecrets.AccessSecretVersion: a payload or an error, as the secret
\* manager has it for the reference at the time of the call
AccessOutcomes ==
    {[err |-> "AccessErr", val |-> 0]} \cup {[err |-> "nil", val |-> v] : v \in Vals}

Call(op, kind, key, ref, err, val, data) ==
    [op |-> op, kind |-> kind, key |-> key, ref |-> ref, err |-> err,
     val |-> val, data |-> data]

Log(i, c) == trace' = [trace EXCEPT ![i] = Append(@, c)]

Return(i, d, err) ==
    /\ ret' = [ret EXCEPT ![i] = Result(d, err)]
    /\ pc' = [pc EXCEPT ![i] = "done"]

\* ---------------------------------------------------------------- Reconcile
\* lines 45-57: fetch cloud secret object, compute recDelay and result
GetCloudSecret(i) ==
    /\ pc[i] = "idle"
    /\ startSecret' = [startSecret EXCEPT ![i] = secrets[GetChildSecretKey(i)]]
    /\ \E err \in GetOutcomes(cloudSecrets[i].exists) :
        /\ Log(i, Call("Get", "CloudSecret", "-", "-", err, 0, EmptyMap))
        /\ IF err # "nil"
           THEN /\ Return(i, 0, IgnoreNotFound(err))
                /\ UNCHANGED locals
           ELSE /\ cloudSecret' = [cloudSecret EXCEPT ![i] = cloudSecrets[i]]
                /\ result' = [result EXCEPT ![i] = cloudSecrets[i].SyncPeriod]
                /\ pc' = [pc EXCEPT ![i] = "getChild"]
                /\ UNCHANGED <<ret, childSecret, pending, getSecretFail>>
    /\ UNCHANGED <<gcpSecrets, cloudSecrets, secrets, prev, store0, stable>>

\* bug: a missing child is not created before the references are resolved
GetChildSecret_NoCreate(i) ==
    /\ pc[i] = "getChild"
    /\ \E err \in GetOutcomes(secrets[GetChildSecretKey(i)].exists) :
        /\ Log(i, Call("Get", "Secret", "-", "-", err, 0, EmptyMap))
        /\ IF err # "nil"
           THEN /\ childSecret' = [childSecret EXCEPT ![i] = InitChildSecret]
                /\ pc' = [pc EXCEPT ![i] = "checkEmpty"]
           ELSE /\ childSecret' = [childSecret EXCEPT ![i] =
                                      secrets[GetChildSecretKey(i)].Data]
                /\ pc' = [pc EXCEPT ![i] = "checkEmpty"]
    /\ UNCHANGED <<gcpSecrets, cloudSecrets, secrets, cloudSecret, pending, getSecretFail,
                   result, ret, startSecret, prev, store0, stable>>

\* lines 59-63: fetch the child secret; on any error go on to create it
GetChildSecret(i) ==
    /\ pc[i] = "getChild"
    /\ \E err \in GetOutcomes(secrets[GetChildSecretKey(i)].exists) :
        /\ Log(i, Call("Get", "Secret", "-", "-", err, 0, EmptyMap))
        /\ IF err # "nil"
           THEN /\ childSecret' = [childSecret EXCEPT ![i] = InitChildSecret]
                /\ pc' = [pc EXCEPT ![i] = "create"]
           ELSE /\ childSecret' = [childSecret EXCEPT ![i] =
                                      secrets[GetChildSecretKey(i)].Data]
                /\ pc' = [pc EXCEPT ![i] = "checkEmpty"]
    /\ UNCHANGED <<gcpSecrets, cloudSecrets, secrets, cloudSecret, pending, getSecretFail,
                   result, ret, startSecret, prev, store0, stable>>

\* bug: the cycle ends once the child is created, leaving the data to the
\* next cycle
Create_ThenReturn(i) ==
    /\ pc[i] = "create"
    /\ \E err \in CreateOutcomes(secrets[GetChildSecretKey(i)].exists) :
        /\ Log(i, Call("Create", "Secret", "-", "-", err, 0, childSecret[i]))
        /\ IF err # "nil"
           THEN /\ Return(i, 0, err)
                /\ UNCHANGED secrets
           ELSE /\ secrets' = [secrets EXCEPT ![GetChildSecretKey(i)] =
                                  [exists |-> TRUE, Data |-> childSecret[i]]]
                /\ Return(i, result[i], "nil")
    /\ UNCHANGED <<gcpSecrets, cloudSecrets, locals, startSecret, prev, store0, stable>>

\* bug: the error of the create is logged and the cycle goes on
Create_IgnoreError(i) ==
    /\ pc[i] = "create"
    /\ \E err \in CreateOutcomes(secrets[GetChildSecretKey(i)].exists) :
        /\ Log(i, Call("Create", "Secret", "-", "-", err, 0, childSecret[i]))
        /\ IF err # "nil"
           THEN UNCHANGED secrets
           ELSE secrets' = [secrets EXCEPT ![GetChildSecretKey(i)] =
                               [exists |-> TRUE, Data |-> childSecret[i]]]
        /\ pc' = [pc EXCEPT ![i] = "checkEmpty"]
        /\ UNCHANGED ret
    /\ UNCHANGED <<gcpSecrets, cloudSecrets, locals, startSecret, prev, store0, stable>>

\* lines 64-67: create the child secret
Create(i) ==
    /\ pc[i] = "create"
    /\ \E err \in CreateOutcomes(secrets[GetChildSecretKey(i)].exists) :
        /\ Log(i, Call("Create", "Secret", "-", "-", err, 0, childSecret[i]))
        /\ IF err # "nil"
           THEN /\ Return(i, 0, err)
                /\ UNCHANGED secrets
           ELSE /\ secrets' = [secrets EXCEPT ![GetChildSecretKey(i)] =
                                  [exists |-> TRUE, Data |-> childSecret[i]]]
                /\ pc' = [pc EXCEPT ![i] = "checkEmpty"]
                /\ UNCHANGED ret
    /\ UNCHANGED <<gcpSecrets, cloudSecrets, locals, startSecret, prev, store0, stable>>

\* bug: the resolved values are merged into the Data read from the store
FreshData_Merge(old) == old

\* line 78: childSecret.Data = make(map[string][]byte)
FreshData(old) == EmptyMap

\* bug: the empty cloud secret is not told apart
NothingToDo_Never(data) == FALSE

\* line 71: len(cloudSecret.Spec.Data) == 0
NothingToDo(data) == Cardinality(DOMAIN data) = 0

\* lines 70-78: nothing left to do on an empty cloud secret; otherwise
\* start the loop over Spec.Data with a fresh Data map
CheckEmpty(i) ==
    /\ pc[i] = "checkEmpty"
    /\ IF NothingToDo(cloudSecret[i].Data)
       THEN /\ Return(i, result[i], "nil")
            /\ UNCHANGED locals
       ELSE /\ getSecretFail' = [getSecretFail EXCEPT ![i] = FALSE]
            /\ childSecret' = [childSecret EXCEPT ![i] = FreshData(@)]
            /\ pending' = [pending EXCEPT ![i] = DOMAIN cloudSecret[i].Data]
            /\ pc' = [pc EXCEPT ![i] = "resolve"]
            /\ UNCHANGED <<cloudSecret, result, ret>>
    /\ UNCHANGED <<gcpSecrets, cloudSecrets, secrets, trace, startSecret, prev, store0, stable>>

\* bug: break instead of continue
AfterFail_Break(rest, k) == {}

\* lines 81-85: a failed access skips the key and the loop goes on
AfterFail(rest, k) == rest \ {k}

\* line 87: childSecret.Data[k] = access.Payload.GetData()
SetData(data, k, v) ==
    [x \in DOMAIN data \cup {k} |-> IF x = k THEN v ELSE data[x]]

\* bug: the request names a reference other than the one of the key
RequestName_Other(data, k) == CHOOSE r \in Refs : r # data[k]

\* line 80: the request names the reference v of the entry (k, v)
RequestName(data, k) == data[k]

\* bug: getSecretFail is a field of the reconciler, shared by the cycles of
\* all identities
Resolve_SharedFail(i) ==
    /\ pc[i] = "resolve"
    /\ pending[i] # {}
    /\ \E k \in pending[i] :
       LET access == gcpSecrets[RequestName(cloudSecret[i].Data, k)] IN
        /\ Log(i, Call("AccessSecretVersion", "-", k,
                       RequestName(cloudSecret[i].Data, k),
                       access.err, access.val, EmptyMap))
        /\ IF access.err # "nil"
           THEN /\ getSecretFail' = [j \in Ids |-> TRUE]
                /\ pending' = [pending EXCEPT ![i] = AfterFail(@, k)]
                /\ UNCHANGED childSecret
           ELSE /\ childSecret' = [childSecret EXCEPT ![i] =
                                      SetData(@, k, access.val)]
                /\ pending' = [pending EXCEPT ![i] = @ \ {k}]
                /\ UNCHANGED getSecretFail
    /\ UNCHANGED <<gcpSecrets, cloudSecrets, secrets, pc, cloudSecret, result, ret,
                   startSecret, prev, store0, stable>>

\* lines 79-88: one iteration of the range loop, in any order
Resolve(i) ==
    /\ pc[i] = "resolve"
    /\ pending[i] # {}
    /\ \E k \in pending[i] :
       LET access == gcpSecrets[RequestName(cloudSecret[i].Data, k)] IN
        /\ Log(i, Call("AccessSecretVersion", "-", k,
                       RequestName(cloudSecret[i].Data, k),
                       access.err, access.val, EmptyMap))
        /\ IF access.err # "nil"
           THEN /\ getSecretFail' = [getSecretFail EXCEPT ![i] = TRUE]
                /\ pending' = [pending EXCEPT ![i] = AfterFail(@, k)]
                /\ UNCHANGED childSecret
           ELSE /\ childSecret' = [childSecret EXCEPT ![i] =
                                      SetData(@, k, access.val)]
                /\ pending' = [pending EXCEPT ![i] = @ \ {k}]
                /\ UNCHANGED getSecretFail
    /\ UNCHANGED <<gcpSecrets, cloudSecrets, secrets, pc, cloudSecret, result, ret,
                   startSecret, prev, store0, stable>>

\* bug: the retry time is taken whatever the sync period
Requeue_Always(fail, recDelay) == IF fail THEN defaultRetryTime ELSE recDelay

\* bug: the retry time is taken whether or not a secret failed
Requeue_NoFlag(fail, recDelay) ==
    IF recDelay > defaultRetryTime THEN defaultRetryTime ELSE recDelay

\* lines 90-94: retry sooner when a secret could not be fetched
Requeue(fail, recDelay) ==
    IF fail /\ recDelay > defaultRetryTime THEN defaultRetryTime ELSE recDelay

\* bug: an empty Data is written like any other
NoneResolved_Never(data) == FALSE

\* line 98: len(childSecret.Data) == 0, no secret was resolved
NoneResolved(data) == Cardinality(DOMAIN data) = 0

\* bug: a cycle that resolved nothing returns the resolver's failure
Delete_ReturnAccessErr(i) ==
    /\ pc[i] = "resolve"
    /\ pending[i] = {}
    /\ NoneResolved(childSecret[i])
    /\ result' = [result EXCEPT ![i] = Requeue(getSecretFail[i], @)]
    /\ \E err \in DeleteOutcomes(secrets[GetChildSecretKey(i)].exists) :
        /\ Log(i, Call("Delete", "Secret", "-", "-", err, 0, childSecret[i]))
        /\ IF err # "nil"
           THEN /\ Return(i, 0, err)
                /\ UNCHANGED secrets
           ELSE /\ secrets' = [secrets EXCEPT ![GetChildSecretKey(i)] = NoSecret]
                /\ Return(i, 0, "AccessErr")
    /\ UNCHANGED <<gcpSecrets, cloudSecrets, cloudSecret, childSecret, pending,
                   getSecretFail, startSecret, prev, store0, stable>>

\* bug: the return at line 104 is missing and the deleted child is updated
Delete_FallThrough(i) ==
    /\ pc[i] = "resolve"
    /\ pending[i] = {}
    /\ NoneResolved(childSecret[i])
    /\ result' = [result EXCEPT ![i] = Requeue(getSecretFail[i], @)]
    /\ \E err \in DeleteOutcomes(secrets[GetChildSecretKey(i)].exists) :
        IF err # "nil"
        THEN /\ Log(i, Call("Delete", "Secret", "-", "-", err, 0, childSecret[i]))
             /\ Return(i, 0, err)
             /\ UNCHANGED secrets
        ELSE /\ trace' = [trace EXCEPT ![i] =
                  @ \o << Call("Delete", "Secret", "-", "-", err, 0, childSecret[i]),
                          Call("Update", "Secret", "-", "-", "NotFound", 0,
                               childSecret[i]) >>]
             /\ secrets' = [secrets EXCEPT ![GetChildSecretKey(i)] = NoSecret]
             /\ Return(i, 0, "NotFound")
    /\ UNCHANGED <<gcpSecrets, cloudSecrets, cloudSecret, childSecret, pending,
                   getSecretFail, startSecret, prev, store0, stable>>

\* bug: the delete is given &cloudSecret instead of &childSecret
Delete_CloudSecret(i) ==
    /\ pc[i] = "resolve"
    /\ pending[i] = {}
    /\ NoneResolved(childSecret[i])
    /\ result' = [result EXCEPT ![i] = Requeue(getSecretFail[i], @)]
    /\ \E err \in DeleteOutcomes(cloudSecrets[i].exists) :
        /\ Log(i, Call("Delete", "CloudSecret", "-", "-", err, 0, EmptyMap))
        /\ IF err # "nil"
           THEN /\ Return(i, 0, err)
                /\ UNCHANGED cloudSecrets
           ELSE /\ cloudSecrets' = [cloudSecrets EXCEPT ![i] = NoCloudSecret]
                /\ Return(i, result'[i], "nil")
    /\ UNCHANGED <<gcpSecrets, secrets, cloudSecret, childSecret, pending,
                   getSecretFail, startSecret, prev, store0, stable>>

\* lines 90-105: the loop is over and nothing was resolved: delete the child
Delete(i) ==
    /\ pc[i] = "resolve"
    /\ pending[i] = {}
    /\ NoneResolved(childSecret[i])
    /\ result' = [result EXCEPT ![i] = Requeue(getSecretFail[i], @)]
    /\ \E err \in DeleteOutcomes(secrets[GetChildSecretKey(i)].exists) :
        /\ Log(i, Call("Delete", "Secret", "-", "-", err, 0, childSecret[i]))
        /\ IF err # "nil"
           THEN /\ Return(i, 0, err)
                /\ UNCHANGED secrets
           ELSE /\ secrets' = [secrets EXCEPT ![GetChildSecretKey(i)] = NoSecret]
                /\ Return(i, result'[i], "nil")
    /\ UNCHANGED <<gcpSecrets, cloudSecrets, cloudSecret, childSecret, pending,
                   getSecretFail, startSecret, prev, store0, stable>>

\* bug: a child that cannot be updated is deleted
Update_DeleteOnError(i) ==
    /\ pc[i] = "resolve"
    /\ pending[i] = {}
    /\ ~NoneResolved(childSecret[i])
    /\ result' = [result EXCEPT ![i] = Requeue(getSecretFail[i], @)]
    /\ \E err \in UpdateOutcomes(secrets[GetChildSecretKey(i)].exists) :
        /\ Log(i, Call("Update", "Secret", "-", "-", err, 0, childSecret[i]))
        /\ IF err # "nil"
           THEN /\ Return(i, 0, err)
                /\ secrets' = [secrets EXCEPT ![GetChildSecretKey(i)] = NoSecret]
           ELSE /\ secrets' = [secrets EXCEPT ![GetChildSecretKey(i)] =
                                  [exists |-> TRUE, Data |-> childSecret[i]]]
                /\ Return(i, result'[i], "nil")
    /\ UNCHANGED <<gcpSecrets, cloudSecrets, cloudSecret, childSecret, pending,
                   getSecretFail, startSecret, prev, store0, stable>>

\* bug: the failed update returns result instead of ctrl.Result{}
Update_KeepResult(i) ==
    /\ pc[i] = "resolve"
    /\ pending[i] = {}
    /\ ~NoneResolved(childSecret[i])
    /\ result' = [result EXCEPT ![i] = Requeue(getSecretFail[i], @)]
    /\ \E err \in UpdateOutcomes(secrets[GetChildSecretKey(i)].exists) :
        /\ Log(i, Call("Update", "Secret", "-", "-", err, 0, childSecret[i]))
        /\ IF err # "nil"
           THEN /\ Return(i, result'[i], err)
                /\ UNCHANGED secrets
           ELSE /\ secrets' = [secrets EXCEPT ![GetChildSecretKey(i)] =
                                  [exists |-> TRUE, Data |-> childSecret[i]]]
                /\ Return(i, result'[i], "nil")
    /\ UNCHANGED <<gcpSecrets, cloudSecrets, cloudSecret, childSecret, pending,
                   getSecretFail, startSecret, prev, store0, stable>>

\* lines 90-94, 107-113: the loop is over and something was resolved:
\* update the child with the new Data
Update(i) ==
    /\ pc[i] = "resolve"
    /\ pending[i] = {}
    /\ ~NoneResolved(childSecret[i])
    /\ result' = [result EXCEPT ![i] = Requeue(getSecretFail[i], @)]
    /\ \E err \in UpdateOutcomes(secrets[GetChildSecretKey(i)].exists) :
        /\ Log(i, Call("Update", "Secret", "-", "-", err, 0, childSecret[i]))
        /\ IF err # "nil"
           THEN /\ Return(i, 0, err)
                /\ UNCHANGED secrets
           ELSE /\ secrets' = [secrets EXCEPT ![GetChildSecretKey(i)] =
                                  [exists |-> TRUE, Data |-> childSecret[i]]]
                /\ Return(i, result'[i], "nil")
    /\ UNCHANGED <<gcpSecrets, cloudSecrets, cloudSecret, childSecret, pending,
                   getSecretFail, startSecret, prev, store0, stable>>

\* ------------------------------------------------- the cycle as a history
IsWrite(c) == c.op \in {"Create", "Update", "Delete"}
IsStoreCall(c) == c.op \in {"Get", "Create", "Update", "Delete"}
IsAccess(c) == c.op = "AccessSecretVersion"
Calls(i, P(_)) == {n \in 1..Len(trace[i]) : P(trace[i][n])}
\* a State Store call that did not succeed (a Get answering NotFound did)
StoreFailed(c) ==
    IsStoreCall(c) /\ c.err # "nil" /\ ~(c.op = "Get" /\ c.err = "NotFound")
\* a State Store call that failed with an error other than NotFound
StoreError(c) == IsStoreCall(c) /\ c.err \notin {"nil", "NotFound"}
CreateFailed(c) == c.op = "Create" /\ c.err # "nil"
AccessFailed(c) == IsAccess(c) /\ c.err # "nil"
AccessOk(c) == IsAccess(c) /\ c.err = "nil"
AccessCalls(i, k) == {n \in Calls(i, IsAccess) : trace[i][n].key = k}
Done(i) == pc[i] = "done"
\* the cycle found the CloudSecret
Found(i) == cloudSecret[i].exists
References(i) == cloudSecret[i].Data
NoReferences(i) == DOMAIN References(i) = {}
ChildOf(i) == secrets[GetChildSecretKey(i)]
\* the cycle got to the loop over Spec.Data: parent found, child present or
\* created, references not empty
ReachedResolve(i) ==
    /\ Found(i)
    /\ ~NoReferences(i)
    /\ \/ pc[i] = "resolve"
       \/ Done(i) /\ Calls(i, CreateFailed) = {}
\* the loop over Spec.Data is over
LoopOver(i) == ReachedResolve(i) /\ (Done(i) \/ pending[i] = {})
\* the values the resolver returned in this cycle, per key
Resolved(i) ==
    [k \in {trace[i][n].key : n \in Calls(i, AccessOk)} |->
        LET n == CHOOSE m \in AccessCalls(i, k) : trace[i][m].err = "nil"
        IN  trace[i][n].val]

\* the failures the State Store can answer whatever it holds
CallFailures == {"GetErr", "CreateErr", "UpdateErr", "DeleteErr"}
\* the answer to a State Store call of the cycle: the failure the call met in
\* the cycle if it met one, otherwise what the store holds decides
CallErr(i, op, kind, held) ==
    LET F == {n \in 1..Len(trace[i]) :
                 /\ trace[i][n].op = op /\ trace[i][n].kind = kind
                 /\ trace[i][n].err \in CallFailures}
    IN  IF F = {} THEN held ELSE trace[i][CHOOSE n \in F : TRUE].err

\* lines 45-114: Reconcile of identity i run from start to end with nothing
\* running beside it, on the Secrets S and the CloudSecret and resolver as
\* they are: the Secrets it leaves and what it returns
RunAlone(i, S) ==
    LET cs == cloudSecrets[i]
        c == GetChildSecretKey(i)
        eParent == CallErr(i, "Get", "CloudSecret",
                           IF cs.exists THEN "nil" ELSE "NotFound")
        eChild == CallErr(i, "Get", "Secret",
                          IF S[c].exists THEN "nil" ELSE "NotFound")
        eCreate == CallErr(i, "Create", "Secret",
                           IF S[c].exists THEN "AlreadyExists" ELSE "nil")
        S1 == IF eChild = "nil" THEN S
              ELSE [S EXCEPT ![c] = [exists |-> TRUE, Data |-> InitChildSecret]]
        ok == {k \in DOMAIN cs.Data :
                  gcpSecrets[RequestName(cs.Data, k)].err = "nil"}
        data == [k \in ok |-> gcpSecrets[RequestName(cs.Data, k)].val]
        d == Requeue(ok # DOMAIN cs.Data, cs.SyncPeriod)
        eDelete == CallErr(i, "Delete", "Secret",
                           IF S1[c].exists THEN "nil" ELSE "NotFound")
        eUpdate == CallErr(i, "Update", "Secret",
                           IF S1[c].exists THEN "nil" ELSE "NotFound")
    IN  IF eParent # "nil"
        THEN [secrets |-> S, ret |-> Result(0, IgnoreNotFound(eParent))]
        ELSE IF eChild # "nil" /\ eCreate # "nil"
        THEN [secrets |-> S, ret |-> Result(0, eCreate)]
        ELSE IF NothingToDo(cs.Data)
        THEN [secrets |-> S1, ret |-> Result(cs.SyncPeriod, "nil")]
        ELSE IF NoneResolved(data)
        THEN IF eDelete # "nil"
             THEN [secrets |-> S1, ret |-> Result(0, eDelete)]
             ELSE [secrets |-> [S1 EXCEPT ![c] = NoSecret],
                   ret |-> Result(d, "nil")]
        ELSE IF eUpdate # "nil"
             THEN [secrets |-> S1, ret |-> Result(0, eUpdate)]
             ELSE [secrets |-> [S1 EXCEPT ![c] = [exists |-> TRUE, Data |-> data]],
                   ret |-> Result(d, "nil")]

NoPrev == [valid |-> FALSE, cloudSecret |-> NoCloudSecret, ok |-> FALSE,
           after |-> NoSecret]
Summary(i) ==
    [valid |-> TRUE, cloudSecret |-> cloudSecret[i],
     ok |-> Calls(i, StoreFailed) = {}, after |-> secrets[GetChildSecretKey(i)]]

\* ------------------------------------------------------------- the driver
ClearCycle(i) ==
    /\ pc' = [pc EXCEPT ![i] = "idle"]
    /\ cloudSecret' = [cloudSecret EXCEPT ![i] = NoCloudSecret]
    /\ childSecret' = [childSecret EXCEPT ![i] = EmptyMap]
    /\ pending' = [pending EXCEPT ![i] = {}]
    /\ getSecretFail' = [getSecretFail EXCEPT ![i] = FALSE]
    /\ result' = [result EXCEPT ![i] = 0]
    /\ ret' = [ret EXCEPT ![i] = NoResult]
    /\ trace' = [trace EXCEPT ![i] = <<>>]
    /\ startSecret' = [startSecret EXCEPT ![i] = NoSecret]

\* the framework takes the result; the reconciler keeps nothing of the cycle
Finish(i) ==
    /\ pc[i] = "done"
    /\ ClearCycle(i)
    /\ UNCHANGED <<gcpSecrets, cloudSecrets, secrets, prev, store0, stable>>

\* the same, remembering the cycle to compare the next one with it
FinishRecord(i) ==
    /\ pc[i] = "done"
    /\ ClearCycle(i)
    /\ prev' = [prev EXCEPT ![i] = Summary(i)]
    /\ UNCHANGED <<gcpSecrets, cloudSecrets, secrets, store0, stable>>

\* ------------------------------------------------------------ environment
\* The user creates or changes the CloudSecret.  Reconcile reads the
\* CloudSecret once, at line 51, so a change made while a cycle runs is seen
\* by that cycle exactly as a change made right after it: changes are taken
\* between cycles.
UserApply(i) ==
    /\ pc[i] = "idle"
    /\ \E cs \in CloudSecretObjs :
        /\ cs # cloudSecrets[i]
        /\ cloudSecrets' = [cloudSecrets EXCEPT ![i] = cs]
    /\ UNCHANGED <<gcpSecrets, secrets, pc, locals, ret, trace, startSecret, prev, store0, stable>>

\* the secret manager gets a new version of a secret, or loses or regains
\* access to it, at any time
GcpChange ==
    /\ \E r \in Refs, o \in AccessOutcomes :
        /\ o # gcpSecrets[r]
        /\ gcpSecrets' = [gcpSecrets EXCEPT ![r] = o]
    /\ UNCHANGED <<cloudSecrets, secrets, pc, locals, ret, trace, startSecret,
                   prev, store0, stable>>

\* the user deletes the CloudSecret
UserDelete(i) ==
    /\ pc[i] = "idle"
    /\ cloudSecrets[i].exists
    /\ cloudSecrets' = [cloudSecrets EXCEPT ![i] = NoCloudSecret]
    /\ UNCHANGED <<gcpSecrets, secrets, pc, locals, ret, trace, startSecret, prev, store0, stable>>

\* ---------------------------------------------------------- specification
InitLocals ==
    /\ pc = [i \in Ids |-> "idle"]
    /\ cloudSecret = [i \in Ids |-> NoCloudSecret]
    /\ childSecret = [i \in Ids |-> EmptyMap]
    /\ pending = [i \in Ids |-> {}]
    /\ getSecretFail = [i \in Ids |-> FALSE]
    /\ result = [i \in Ids |-> 0]
    /\ ret = [i \in Ids |-> NoResult]
    /\ trace = [i \in Ids |-> <<>>]
    /\ startSecret = [i \in Ids |-> NoSecret]
    /\ prev = [i \in Ids |-> NoPrev]
    /\ stable = FALSE

\* one identity is reconciled; its objects start in any state
Init ==
    /\ \E cs \in CloudSecretObjs \cup {NoCloudSecret} :
        cloudSecrets = [i \in Ids |-> IF i = MainId THEN cs ELSE NoCloudSecret]
    /\ \E s \in SecretObjs \cup {NoSecret} :
        secrets = [c \in ChildKeys |->
                      IF c = GetChildSecretKey(MainId) THEN s ELSE NoSecret]
    /\ gcpSecrets \in [Refs -> AccessOutcomes]
    /\ store0 = [c \in ChildKeys |-> NoSecret]
    /\ InitLocals

Step(i) ==
    \/ GetCloudSecret(i)
    \/ GetChildSecret(i)
    \/ Create(i)
    \/ CheckEmpty(i)
    \/ Resolve(i)
    \/ Delete(i)
    \/ Update(i)

Next ==
    \/ Step(MainId)
    \/ Finish(MainId)
    \/ UserApply(MainId)
    \/ UserDelete(MainId)
    \/ GcpChange

Spec == Init /\ [][Next]_vars

\* CloudSecrets and Secrets of two identities reconciled side by side
ParCloudSecrets ==
    {NoCloudSecret} \cup
    {cs \in CloudSecretObjs :
        /\ cs.SyncPeriod > defaultRetryTime
        /\ \A k \in DOMAIN cs.Data : (k = "a") = (cs.Data[k] = "ra")}
ParSecrets == {NoSecret, [exists |-> TRUE, Data |-> [k \in Keys |-> MaxVal]]}

InitPar ==
    /\ cloudSecrets \in [Ids -> ParCloudSecrets]
    /\ secrets \in [ChildKeys -> ParSecrets]
    /\ gcpSecrets \in [Refs -> AccessOutcomes]
    /\ store0 = secrets
    /\ InitLocals

\* one cycle for each identity, their steps interleaved in any way
NextPar == \E i \in Ids : Step(i)

SpecPar == InitPar /\ [][NextPar]_vars

\* the last call of the step, if it made one, met no failure of the store
NoCallFailure(i) ==
    \/ Len(trace'[i]) <= Len(trace[i])
    \/ trace'[i][Len(trace'[i])].err \notin CallFailures

\* From now on the CloudSecret stays as it is, with references, the resolver
\* answers each of them with a value that stays, and no State Store call
\* fails.  The cycle under way, if any, goes on from where it is.
Settle ==
    /\ ~stable
    /\ cloudSecrets[MainId].exists
    /\ DOMAIN cloudSecrets[MainId].Data # {}
    /\ \A k \in DOMAIN cloudSecrets[MainId].Data :
          gcpSecrets[cloudSecrets[MainId].Data[k]].err = "nil"
    /\ stable' = TRUE
    /\ UNCHANGED <<cloudSecrets, secrets, gcpSecrets, pc, locals, ret, trace,
                   startSecret, prev, store0>>

\* a step of the cycle, or the driver taking its result and invoking
\* Reconcile again, once the environment has settled
SettledStep ==
    /\ stable
    /\ Step(MainId) \/ Finish(MainId)
    /\ NoCallFailure(MainId)

\* the user creates the CloudSecret or changes its references; the sync
\* period, which decides nothing of what the store comes to hold, is kept
UserApplyData(i) ==
    /\ pc[i] = "idle"
    /\ \E cs \in CloudSecretObjs :
        /\ cs.SyncPeriod = defaultRetryTime + 1
        /\ cs # cloudSecrets[i]
        /\ cloudSecrets' = [cloudSecrets EXCEPT ![i] = cs]
    /\ UNCHANGED <<gcpSecrets, secrets, pc, locals, ret, trace, startSecret,
                   prev, store0, stable>>

InitLive ==
    /\ Init
    /\ cloudSecrets[MainId].SyncPeriod \in {0, defaultRetryTime + 1}

\* before the environment settles anything can happen
Unsettled ==
    /\ ~stable
    /\ \/ Step(MainId)
       \/ Finish(MainId)
       \/ UserApplyData(MainId)
       \/ UserDelete(MainId)
       \/ GcpChange

NextLive ==
    \/ Unsettled
    \/ Settle
    \/ SettledStep

\* the driver invokes Reconcile again after every return and a cycle under
\* way goes on: weak fairness of the steps
SpecLive == InitLive /\ [][NextLive]_vars /\ WF_vars(SettledStep)

\* Reconcile run again and again on a CloudSecret nobody changes, with a
\* resolver whose answers do not change
NextRepeat ==
    \/ Step(MainId)
    \/ FinishRecord(MainId)

SpecRepeat == Init /\ [][NextRepeat]_vars

\* ------------------------------------------------------------------ claims
EmptySecret == [exists |-> TRUE, Data |-> EmptyMap]

\* C1 as stated: after any cycle that read the CloudSecret, the keys of the
\* stored child Secret, if it exists, are among the keys of the references
\* read in the cycle.
C1_SubsetAnyCycle ==
    \A i \in Ids :
        Done(i) /\ Found(i) /\ ChildOf(i).exists
            => DOMAIN ChildOf(i).Data \subseteq DOMAIN References(i)

\* C1 amended: after a cycle that read non-empty references and returned no
\* error, the keys of the stored child Secret, if it exists, are among the
\* keys of the references read in the cycle.
C1_SubsetAfterSuccess ==
    \A i \in Ids :
        /\ Done(i) /\ Found(i) /\ ChildOf(i).exists
        /\ ~NoReferences(i)
        /\ ret[i].err = "nil"
        => DOMAIN ChildOf(i).Data \subseteq DOMAIN References(i)

\* a successful cycle wrote a child whose former keys were not all references
C1_Witness ==
    \E i \in Ids :
        /\ Done(i) /\ Found(i) /\ ChildOf(i).exists
        /\ ~NoReferences(i)
        /\ ret[i].err = "nil"
        /\ startSecret[i].exists
        /\ ~(DOMAIN startSecret[i].Data \subseteq DOMAIN References(i))

\* C2: after a cycle with non-empty references in which at least one
\* reference resolved and every State Store call succeeded, the stored child
\* Secret holds exactly the values the resolver returned in this cycle, for
\* exactly the keys that resolved.
C2_ReplaceNotMerge ==
    \A i \in Ids :
        /\ Done(i) /\ Found(i)
        /\ ~NoReferences(i)
        /\ Calls(i, AccessOk) # {}
        /\ Calls(i, StoreFailed) = {}
        => ChildOf(i) = [exists |-> TRUE, Data |-> Resolved(i)]

\* a key held a value before the cycle, failed in it, and another key
\* resolved to a value other than the one it held
C2_Witness ==
    \E i \in Ids, a, b \in Keys :
        /\ Done(i) /\ Found(i)
        /\ Calls(i, StoreFailed) = {}
        /\ startSecret[i].exists
        /\ {a, b} \subseteq DOMAIN startSecret[i].Data
        /\ \E n \in AccessCalls(i, b) : trace[i][n].err # "nil"
        /\ \E n \in AccessCalls(i, a) :
              trace[i][n].err = "nil" /\ trace[i][n].val # startSecret[i].Data[a]
        /\ ChildOf(i).exists /\ DOMAIN ChildOf(i).Data = {a}

\* the cycle called the resolver and every call failed
AllFailed(i) ==
    /\ Done(i) /\ LoopOver(i)
    /\ Calls(i, IsAccess) # {}
    /\ Calls(i, AccessOk) = {}

\* C3 as stated: after a cycle with non-empty references in which every
\* resolver call failed, the child Secret is not in the store.
C3_TotalFailureDeletes ==
    \A i \in Ids : AllFailed(i) => ~ChildOf(i).exists

\* C3 amended: after such a cycle the child Secret is not in the store if the
\* delete call succeeded; if the delete call failed, the cycle returns its
\* error and the child is left as it was found, or empty if the cycle
\* created it.
C3_TotalFailureDeletesUnlessDeleteFails ==
    \A i \in Ids :
        AllFailed(i) =>
            /\ ret[i].err = "nil" => ~ChildOf(i).exists
            /\ ret[i].err # "nil" =>
                  /\ ret[i] = Result(0, "DeleteErr")
                  /\ ChildOf(i) \in {startSecret[i], EmptySecret}

\* every call failed and the child that existed is gone
C3_Witness ==
    \E i \in Ids :
        /\ AllFailed(i)
        /\ startSecret[i].exists /\ startSecret[i].Data # EmptyMap
        /\ ~ChildOf(i).exists

\* the part of C4 about calls and the store: no resolver call, no delete, no
\* update, an existing child keeps its data
NoOpOnEmpty(i) ==
    /\ Calls(i, IsAccess) = {}
    /\ \A n \in Calls(i, IsWrite) : trace[i][n].op = "Create"
    /\ startSecret[i].exists => ChildOf(i) = startSecret[i]

\* C4 as stated: a cycle that read empty references calls no resolver,
\* issues no delete and no update, leaves an existing child as it was, and
\* returns (SyncPeriod, nil).
C4_NoReferenceNoOp ==
    \A i \in Ids :
        Done(i) /\ Found(i) /\ NoReferences(i) =>
            /\ NoOpOnEmpty(i)
            /\ ret[i] = Result(cloudSecret[i].SyncPeriod, "nil")

\* C4 amended: ... and returns (SyncPeriod, nil), unless the create of a
\* missing child failed, when it returns (0, the create error).
C4_NoReferenceNoOpUnlessCreateFails ==
    \A i \in Ids :
        Done(i) /\ Found(i) /\ NoReferences(i) =>
            /\ NoOpOnEmpty(i)
            /\ IF Calls(i, CreateFailed) = {}
               THEN ret[i] = Result(cloudSecret[i].SyncPeriod, "nil")
               ELSE ret[i] = Result(0, trace[i][Len(trace[i])].err)
                    /\ CreateFailed(trace[i][Len(trace[i])])

\* a cycle with empty references found a child holding data
C4_Witness ==
    \E i \in Ids :
        /\ Done(i) /\ Found(i) /\ NoReferences(i)
        /\ startSecret[i].exists /\ startSecret[i].Data # EmptyMap
        /\ ret[i].err = "nil"

Accelerated(p) == IF p > defaultRetryTime THEN defaultRetryTime ELSE p

\* C5 as stated: every cycle in which a resolver call failed returns the
\* requeue interval 5 if SyncPeriod > 5 and SyncPeriod otherwise.
C5_AccelerationAnyCycle ==
    \A i \in Ids :
        Done(i) /\ Calls(i, AccessFailed) # {}
            => ret[i].RequeueAfter = Accelerated(cloudSecret[i].SyncPeriod)

\* C5 amended: every cycle in which a resolver call failed and which returns
\* no error returns the requeue interval 5 if SyncPeriod > 5 and SyncPeriod
\* otherwise; if its delete or update failed it returns the interval 0.
C5_AccelerationUnlessError ==
    \A i \in Ids :
        Done(i) /\ Calls(i, AccessFailed) # {} =>
            IF ret[i].err = "nil"
            THEN ret[i].RequeueAfter = Accelerated(cloudSecret[i].SyncPeriod)
            ELSE ret[i].RequeueAfter = 0

\* a resolver call failed under a sync period below the retry time
C5_Witness ==
    \E i \in Ids :
        /\ Done(i) /\ Calls(i, AccessFailed) # {} /\ Calls(i, AccessOk) # {}
        /\ ret[i].err = "nil"
        /\ cloudSecret[i].SyncPeriod < defaultRetryTime
        /\ ret[i].RequeueAfter = cloudSecret[i].SyncPeriod

\* the cycle just run and the one before it read the same CloudSecret and no
\* State Store call of either failed (under SpecRepeat the resolver answers
\* the same for a reference at every call)
SameAgain(i) ==
    /\ Done(i)
    /\ prev[i].valid
    /\ prev[i].cloudSecret = cloudSecret[i]
    /\ prev[i].ok
    /\ Calls(i, StoreFailed) = {}

\* C6: when Reconcile runs twice in a row on an unchanged CloudSecret, the
\* resolver answers the same both times and every State Store call succeeds,
\* the child Secret after the second cycle is the one after the first (same
\* presence, same data).
C6_Idempotent ==
    \A i \in Ids : SameAgain(i) => ChildOf(i) = prev[i].after

\* two such cycles, each creating the child, resolving one key and failing
\* the other
C6_Witness ==
    \E i \in Ids :
        /\ SameAgain(i)
        /\ Calls(i, AccessOk) # {} /\ Calls(i, AccessFailed) # {}
        /\ ChildOf(i).exists

\* C7: when the lookup of the CloudSecret answers NotFound, the cycle returns
\* (0, nil), makes no other call (no create, update, delete, no resolver
\* call) and leaves the child Secret as it was.
C7_DeletedParent ==
    \A i \in Ids :
        Done(i) /\ trace[i][1].err = "NotFound" =>
            /\ ret[i] = Result(0, "nil")
            /\ Len(trace[i]) = 1
            /\ ChildOf(i) = startSecret[i]

\* the CloudSecret is gone and its child is still there
C7_Witness ==
    \E i \in Ids :
        /\ Done(i) /\ trace[i][1].err = "NotFound"
        /\ ~cloudSecrets[i].exists
        /\ ChildOf(i).exists /\ ChildOf(i).Data # EmptyMap

\* C8: a State Store call that fails with an error other than NotFound is
\* the last call of its cycle, and the cycle returns that error.
C8_StoreErrorsFatal ==
    \A i \in Ids : \A n \in Calls(i, StoreError) :
        /\ n = Len(trace[i])
        /\ Done(i)
        /\ ret[i].err = trace[i][n].err

\* C9 as stated: after a cycle that returns an error the child Secret is as
\* it was before the cycle.
C9_ErrorNoChange ==
    \A i \in Ids :
        Done(i) /\ ret[i].err # "nil" => ChildOf(i) = startSecret[i]

\* C9 amended: after a cycle that returns an error the child Secret is as it
\* was before the cycle, or it was missing before the cycle and is now in
\* the store with no data (created by this cycle before the failing call).
C9_ErrorNoChangeButCreate ==
    \A i \in Ids :
        Done(i) /\ ret[i].err # "nil" =>
            \/ ChildOf(i) = startSecret[i]
            \/ ~startSecret[i].exists /\ ChildOf(i) = EmptySecret

\* the update of a child holding data failed after a key was resolved
C9_Witness ==
    \E i \in Ids :
        /\ Done(i) /\ ret[i].err = "UpdateErr"
        /\ startSecret[i].exists /\ startSecret[i].Data # EmptyMap
        /\ ChildOf(i) = startSecret[i]
        /\ childSecret[i] # startSecret[i].Data

\* C10: in a cycle that reaches the loop over the references, the resolver is
\* called at most once per key, always with the reference of that key, and
\* never for another key; once the loop is over it has been called exactly
\* once for every key, whatever calls failed and whatever the order.
C10_NoShortCircuit ==
    \A i \in Ids :
        /\ \A n \in Calls(i, IsAccess) :
              /\ ReachedResolve(i)
              /\ trace[i][n].key \in DOMAIN References(i)
              /\ trace[i][n].ref = References(i)[trace[i][n].key]
        /\ ReachedResolve(i) =>
              \A k \in DOMAIN References(i) : Cardinality(AccessCalls(i, k)) <= 1
        /\ LoopOver(i) =>
              \A k \in DOMAIN References(i) : Cardinality(AccessCalls(i, k)) = 1

\* the first resolver call of the cycle failed and a later one was made
C10_Witness ==
    \E i \in Ids : \E n \in Calls(i, AccessFailed) : \E m \in Calls(i, IsAccess) :
        /\ Done(i) /\ LoopOver(i)
        /\ n < m
        /\ trace[i][n].ref # trace[i][m].ref

\* C11: a cycle in which every State Store call succeeds returns a nil error,
\* whatever the resolver answered; the answers decide only the data written
\* (the child is deleted when nothing resolved) and the requeue interval.
C11_ResolutionNeverError ==
    \A i \in Ids :
        Done(i) /\ Calls(i, StoreFailed) = {} =>
            /\ ret[i].err = "nil"
            /\ LoopOver(i) =>
                  /\ ret[i].RequeueAfter =
                        IF Calls(i, AccessFailed) # {}
                        THEN Accelerated(cloudSecret[i].SyncPeriod)
                        ELSE cloudSecret[i].SyncPeriod
                  /\ ChildOf(i) = IF Calls(i, AccessOk) = {} THEN NoSecret
                                  ELSE [exists |-> TRUE, Data |-> Resolved(i)]

\* every resolver call of a cycle failed, no State Store call did, and the
\* cycle returned nil
C11_Witness ==
    \E i \in Ids :
        /\ AllFailed(i)
        /\ Cardinality(Calls(i, AccessFailed)) = Cardinality(Keys)
        /\ Calls(i, StoreFailed) = {}
        /\ ret[i].err = "nil"

\* C13: when the create of the child fails, the cycle returns (0, the create
\* error); the create is its last call, so no resolver call, update or
\* delete is made.
C13_CreateFailureAborts ==
    \A i \in Ids : \A n \in Calls(i, CreateFailed) :
        /\ n = Len(trace[i])
        /\ Done(i)
        /\ ret[i] = Result(0, trace[i][n].err)
        /\ Calls(i, IsAccess) = {}
        /\ \A m \in Calls(i, IsWrite) : trace[i][m].op = "Create"

\* the lookup answered NotFound and the create failed, with references to
\* resolve
C13_Witness ==
    \E i \in Ids :
        /\ Done(i) /\ ~NoReferences(i)
        /\ Len(trace[i]) = 3
        /\ trace[i][2].op = "Get" /\ trace[i][2].err = "NotFound"
        /\ CreateFailed(trace[i][3])
        /\ ret[i].err = "CreateErr"

\* C14: a return with a non-nil error has the requeue interval 0, also after
\* a failed resolution; a return with a positive interval has a nil error.
C14_ErrorXorRequeue ==
    \A i \in Ids :
        Done(i) =>
            /\ ret[i].err # "nil" => ret[i].RequeueAfter = 0
            /\ ret[i].RequeueAfter > 0 => ret[i].err = "nil"

\* the update failed in a cycle whose interval had been accelerated
C14_Witness ==
    \E i \in Ids :
        /\ Done(i) /\ ret[i] = Result(0, "UpdateErr")
        /\ getSecretFail[i]
        /\ cloudSecret[i].SyncPeriod > defaultRetryTime
        /\ result[i] = defaultRetryTime

Writes(i) == Calls(i, IsWrite)
WritesOf(i, op) == {n \in Writes(i) : trace[i][n].op = op}

\* C15 as stated: a cycle issues at most one write to the State Store.
C15_SingleWrite ==
    \A i \in Ids : Cardinality(Writes(i)) <= 1

\* C15 amended: a cycle issues at most two writes: at most one create, made
\* only when the lookup of the child did not find it, and after it at most
\* one update or delete; a cycle whose lookup found the child issues at most
\* one write.
C15_AtMostCreateThenOne ==
    \A i \in Ids :
        /\ Cardinality(WritesOf(i, "Create")) <= 1
        /\ Cardinality(WritesOf(i, "Update") \cup WritesOf(i, "Delete")) <= 1
        /\ \A n \in WritesOf(i, "Create") :
              /\ n = 3 /\ trace[i][2].op = "Get" /\ trace[i][2].err # "nil"
              /\ \A m \in Writes(i) : n <= m
        /\ Len(trace[i]) >= 2 /\ trace[i][2].err = "nil"
              => Cardinality(Writes(i)) <= 1

\* a cycle created the child and deleted it again
C15_Witness ==
    \E i \in Ids :
        /\ Done(i) /\ ret[i].err = "nil"
        /\ WritesOf(i, "Create") # {} /\ WritesOf(i, "Delete") # {}

\* C16: the child Secret is in the store whenever the resolver is about to be
\* called or has been called in the running cycle; and a cycle that started
\* without the child and resolved a reference made exactly two writes,
\* create with no data and then update with the resolved data, every
\* resolver call between the two, and no delete.
C16_CreateBeforeResolve ==
    \A i \in Ids :
        /\ pc[i] = "resolve" => ChildOf(i).exists
        /\ Done(i) /\ ~startSecret[i].exists /\ Calls(i, AccessOk) # {} =>
              \E c, u \in Writes(i) :
                  /\ Writes(i) = {c, u}
                  /\ c < u
                  /\ trace[i][c].op = "Create" /\ trace[i][c].data = EmptyMap
                  /\ trace[i][c].err = "nil"
                  /\ trace[i][u].op = "Update" /\ trace[i][u].data = Resolved(i)
                  /\ \A n \in Calls(i, IsAccess) : c < n /\ n < u

\* Scenario A: no child, the references resolve, the child is created and
\* updated and the full interval returned
C16_Witness ==
    \E i \in Ids :
        /\ Done(i) /\ ~startSecret[i].exists
        /\ Calls(i, AccessFailed) = {}
        /\ Cardinality(Calls(i, AccessOk)) = Cardinality(Keys)
        /\ ChildOf(i) = [exists |-> TRUE, Data |-> Resolved(i)]
        /\ ret[i] = Result(cloudSecret[i].SyncPeriod, "nil")

\* C17: a cycle that found the CloudSecret and returns no error returns the
\* interval SyncPeriod or 5, never more than SyncPeriod, and SyncPeriod when
\* no resolver call failed (also with no references).
C17_NeverLengthened ==
    \A i \in Ids :
        Done(i) /\ Found(i) /\ ret[i].err = "nil" =>
            /\ ret[i].RequeueAfter \in {cloudSecret[i].SyncPeriod, defaultRetryTime}
            /\ ret[i].RequeueAfter <= cloudSecret[i].SyncPeriod
            /\ Calls(i, AccessFailed) = {}
                  => ret[i].RequeueAfter = cloudSecret[i].SyncPeriod

\* a resolution failed under a sync period below 5 and the interval was kept
C17_Witness ==
    \E i \in Ids :
        /\ Done(i) /\ Found(i) /\ ret[i].err = "nil"
        /\ Calls(i, AccessFailed) # {}
        /\ cloudSecret[i].SyncPeriod < defaultRetryTime
        /\ ret[i].RequeueAfter = cloudSecret[i].SyncPeriod
        /\ Calls(i, AccessOk) = {}

\* C12: when the cycles of two identities have both ended, however their
\* steps were interleaved, the Secrets in the store and what each cycle
\* returned are those of running one cycle to its end and then the other, in
\* either order, each on its own from the stored objects alone.
C12_InterleavingAsSequential ==
    (\A i \in Ids : Done(i)) =>
        \A i, j \in Ids :
            i # j =>
                LET first == RunAlone(i, store0)
                    second == RunAlone(j, first.secrets)
                IN  /\ secrets = second.secrets
                    /\ ret[i] = first.ret
                    /\ ret[j] = second.ret

\* both cycles ended, one having updated its child after a failed
\* resolution, the other having deleted its child
C12_Witness ==
    \E i, j \in Ids :
        /\ i # j /\ Done(i) /\ Done(j)
        /\ Calls(i, AccessFailed) # {} /\ WritesOf(i, "Update") # {}
        /\ ret[i].err = "nil" /\ ChildOf(i) # store0[GetChildSecretKey(i)]
        /\ WritesOf(j, "Delete") # {} /\ ret[j].err = "nil"
        /\ store0[GetChildSecretKey(j)].exists

\* a step of the cycle of identity i
StepOf(i) == pc'[i] # pc[i] \/ trace'[i] # trace[i]

\* C18: a step of the cycle of an identity changes no CloudSecret and no
\* Secret other than the one at the child key of that identity.
C18_WriteFootprint ==
    [][\A i \in Ids :
          StepOf(i) =>
              /\ cloudSecrets' = cloudSecrets
              /\ \A c \in ChildKeys \ {GetChildSecretKey(i)} :
                    secrets'[c] = secrets[c]]_vars

\* the cycles of both identities have written their child, beside the
\* CloudSecret and the Secret of the other
C18_Witness ==
    /\ \A i \in Ids :
          /\ Done(i) /\ cloudSecrets[i].exists
          /\ ChildOf(i) # store0[GetChildSecretKey(i)]
    /\ \E i \in Ids : ChildOf(i).exists
    /\ \E i \in Ids : ~ChildOf(i).exists

\* the child Secret holds the value the resolver has for the reference of
\* every key of the CloudSecret, and nothing else
Target(i) ==
    [k \in DOMAIN cloudSecrets[i].Data |-> gcpSecrets[cloudSecrets[i].Data[k]].val]
Converged(i) == ChildOf(i) = [exists |-> TRUE, Data |-> Target(i)]

\* C19: once the CloudSecret stays unchanged with references, every resolver
\* call succeeds with a fixed value and no State Store call fails, the child
\* Secret eventually holds exactly the resolved value of every reference, and
\* holds it ever after, whatever state the store and the cycle were in.
C19_Convergence == stable ~> [](Converged(MainId))

\* a cycle run after the environment settled found no child and left the
\* full data
C19_Witness ==
    /\ stable
    /\ Done(MainId)
    /\ ~startSecret[MainId].exists
    /\ Cardinality(DOMAIN Target(MainId)) = Cardinality(Keys)
    /\ Converged(MainId)

TypeOK ==
    /\ cloudSecrets \in [Ids -> CloudSecretObjs \cup {NoCloudSecret}]
    /\ secrets \in [ChildKeys -> SecretObjs \cup {NoSecret}]
    /\ pc \in [Ids -> {"idle", "getChild", "create", "checkEmpty", "resolve", "done"}]
    /\ \A i \in Ids : Len(trace[i]) <= 4 + Cardinality(Keys)
====
